---- MODULE Spec2Model ----
(***************************************************************************)
(* ComfyKix storefront script (src/ComfyKix/script.js): the shopping cart, *)
(* checkout into the in-memory order log, the modal panels and the mock    *)
(* order tracker with its delayed result display.                          *)
(*                                                                         *)
(* A line item is an object: cart holds the values of the objects in the   *)
(* cart array, and cartAlias[i] is the set of slots <<o, j>> such that     *)
(* orders[o].items[j] is the very object cart[i], so that a write to       *)
(* cart[i].quantity is a write to those order items too.                   *)
(*                                                                         *)
(* Strings that the script computes (Date.now().toString().slice(-6),      *)
(* Number.toLocaleString('en-IN'), the badge's textContent) are sequences  *)
(* of one-character strings, so that formatting is computed as the script  *)
(* computes it.  Product names and fixed messages are TLA+ strings.        *)
(* Date.now() is EpochBase + now, where EpochBase is a multiple of 10^6    *)
(* milliseconds, so the last six decimal digits of Date.now() are those of *)
(* now.  Prices are whole rupees (parseFloat of the data-product-price     *)
(* attribute of the page's buttons).                                       *)
(***************************************************************************)
EXTENDS Integers, Sequences, FiniteSets, TLC

VARIABLES
  cart,                 \* script.js:2   [{ name, price, quantity }]
  cartAlias,            \* per cart entry: the order items that are the same object
  orders,               \* script.js:3   [{ orderId, items, total, date }]
  now,                  \* the last reading of the millisecond clock
  cartCountSpan,        \* #cart-count: [textContent, display]
  cartItemsContainer,   \* #cart-items-container: the rendered rows
  cartTotalSpan,        \* #cart-total textContent
  buyAllItemsBtn,       \* #buy-all-items-btn: [disabled]
  modalDisplay,         \* style.display of the three modals
  orderConfirmationMessage, \* innerHTML of the confirmation paragraph
  orderNumberInput,     \* #order-number-input value
  orderStatusDisplay,   \* #order-status-display: [content, classList]
  trackTimers,          \* pending 1500 ms timers of trackOrder, oldest first
  confirmTimers,        \* number of pending 5000 ms auto-close timers
  lastEvent             \* the handler or callback that ran last

vars == <<cart, cartAlias, orders, now, cartCountSpan, cartItemsContainer, cartTotalSpan,
          buyAllItemsBtn, modalDisplay, orderConfirmationMessage,
          orderNumberInput, orderStatusDisplay, trackTimers, confirmTimers,
          lastEvent>>

cartVars == <<cart, cartAlias, cartCountSpan, cartItemsContainer, cartTotalSpan, buyAllItemsBtn>>
trackerVars == <<orderNumberInput, orderStatusDisplay, trackTimers>>

-----------------------------------------------------------------------------
(* Bounds *)

MaxQty == 2            \* a line item's quantity is not increased beyond this
MaxShopOrders == 1     \* orders placed in the runs of the shop
MaxOrders == 2         \* orders placed in the runs of the order tracker
MaxNow == 1000001      \* the clock is not read beyond EpochBase + MaxNow
MaxTrackTimers == 1    \* pending tracker timers
MaxPending == 2        \* pending tracker timers in the runs of overlapping lookups

(* The page's product buttons: data-product-name, data-product-price. *)
Products == { [name |-> "Hoodie", price |-> 1200],
              [name |-> "Sneakers", price |-> 2500] }

(* The product buttons clicked in the runs of the order tracker. *)
TrackerProducts == { [name |-> "Hoodie", price |-> 1200] }

(* What the user can have typed into the order number field. *)
InputValues == { <<>>, <<" ">>,
                 <<"0","0","0","0","0","1">>,
                 <<" ","0","0","0","0","0","2"," ">>,
                 <<"9","9","9","9","9","9">> }

Modals == {"shoppingCartModal", "orderConfirmationModal", "orderTrackerModal"}

-----------------------------------------------------------------------------
(* Number and string conversions *)

DigitChar(d) == CASE d = 0 -> "0" [] d = 1 -> "1" [] d = 2 -> "2" [] d = 3 -> "3"
                  [] d = 4 -> "4" [] d = 5 -> "5" [] d = 6 -> "6" [] d = 7 -> "7"
                  [] d = 8 -> "8" [] d = 9 -> "9"

RECURSIVE NumberToString(_)
(* Number.prototype.toString() of a non-negative integer. *)
NumberToString(n) ==
  IF n < 10 THEN <<DigitChar(n)>>
  ELSE Append(NumberToString(n \div 10), DigitChar(n % 10))

(* String.prototype.slice(-k): the last k characters (all when shorter). *)
SliceLast(s, k) ==
  IF Len(s) <= k THEN s ELSE SubSeq(s, Len(s) - k + 1, Len(s))

(* Date.now().toString(): the digits of EpochBase + n, where EpochBase is  *)
(* 1762000 * 10^6.                                                          *)
DateNowToString(n) ==
  LET low == NumberToString(n % 1000000)
      pad == [i \in 1..(6 - Len(low)) |-> "0"]
      high == NumberToString(1762000 + (n \div 1000000))
  IN high \o pad \o low

RECURSIVE GroupIndian(_)
(* The digits left of the last three, grouped in twos (en-IN grouping). *)
GroupIndian(s) ==
  IF Len(s) <= 2 THEN s
  ELSE GroupIndian(SubSeq(s, 1, Len(s) - 2)) \o <<",">> \o SubSeq(s, Len(s) - 1, Len(s))

(* Number.prototype.toLocaleString('en-IN') of a non-negative integer. *)
ToLocaleStringIN(n) ==
  LET s == NumberToString(n)
  IN IF Len(s) <= 3 THEN s
     ELSE GroupIndian(SubSeq(s, 1, Len(s) - 3)) \o <<",">> \o SubSeq(s, Len(s) - 2, Len(s))

(* new Date().toLocaleString(): the wall clock to the second. *)
DateToLocaleString(n) == n \div 1000

RECURSIVE TrimLeft(_)
TrimLeft(s) == IF s # <<>> /\ Head(s) = " " THEN TrimLeft(Tail(s)) ELSE s

RECURSIVE TrimRight(_)
TrimRight(s) ==
  IF s # <<>> /\ s[Len(s)] = " " THEN TrimRight(SubSeq(s, 1, Len(s) - 1)) ELSE s

Trim_None(s) == s

(* String.prototype.trim() *)
Trim(s) == TrimRight(TrimLeft(s))

-----------------------------------------------------------------------------
(* Helper functions *)

RECURSIVE SumQuantity(_)
(* cart.reduce((sum, item) => sum + item.quantity, 0) *)
SumQuantity(c) ==
  IF c = <<>> THEN 0 ELSE Head(c).quantity + SumQuantity(Tail(c))

RECURSIVE SumPriceQuantity(_)
(* cart.reduce((sum, item) => sum + (item.price * item.quantity), 0) *)
SumPriceQuantity(c) ==
  IF c = <<>> THEN 0
  ELSE Head(c).price * Head(c).quantity + SumPriceQuantity(Tail(c))

(* updateCartCount: the badge for cart c *)
updateCartCount(c) ==
  LET totalItems == SumQuantity(c)
  IN [textContent |-> NumberToString(totalItems),
      display |-> IF totalItems > 0 THEN "block" ELSE "none"]

CartItemElement_OneBased(item, index) ==
  [name |-> item.name,
   price |-> <<"Rs">> \o ToLocaleStringIN(item.price),
   quantity |-> NumberToString(item.quantity),
   dataIndex |-> index + 1]

(* One rendered .cart-item row of updateCartDisplay. *)
CartItemElement(item, index) ==
  [name |-> item.name,
   price |-> <<"Rs">> \o ToLocaleStringIN(item.price),
   quantity |-> NumberToString(item.quantity),
   dataIndex |-> index]

RECURSIVE DisplayTotal_NoQuantity(_)
DisplayTotal_NoQuantity(c) ==
  IF c = <<>> THEN 0
  ELSE DisplayTotal_NoQuantity(SubSeq(c, 1, Len(c) - 1)) + c[Len(c)].price

RECURSIVE ForEachTotal(_)
ForEachTotal(c) ==
  IF c = <<>> THEN 0
  ELSE ForEachTotal(SubSeq(c, 1, Len(c) - 1)) + c[Len(c)].price * c[Len(c)].quantity

(* let total = 0; cart.forEach(item => total += item.price * item.quantity) *)
DisplayTotal(c) == ForEachTotal(c)

updateCartDisplay_NeverDisables(c) ==
  IF Len(c) = 0
  THEN /\ cartItemsContainer' = <<>>
       /\ cartTotalSpan' = <<"Rs", "0">>
       /\ UNCHANGED <<buyAllItemsBtn, cartCountSpan>>
  ELSE /\ cartItemsContainer' = [i \in 1..Len(c) |-> CartItemElement(c[i], i - 1)]
       /\ cartTotalSpan' = <<"Rs">> \o ToLocaleStringIN(DisplayTotal(c))
       /\ buyAllItemsBtn' = [disabled |-> FALSE]
       /\ cartCountSpan' = updateCartCount(c)

(* updateCartDisplay: the DOM after rendering cart c *)
updateCartDisplay(c) ==
  IF Len(c) = 0
  THEN /\ cartItemsContainer' = <<>>
       /\ cartTotalSpan' = <<"Rs", "0">>
       /\ buyAllItemsBtn' = [disabled |-> TRUE]
       /\ UNCHANGED cartCountSpan
  ELSE /\ cartItemsContainer' = [i \in 1..Len(c) |-> CartItemElement(c[i], i - 1)]
       /\ cartTotalSpan' = <<"Rs">> \o ToLocaleStringIN(DisplayTotal(c))
       /\ buyAllItemsBtn' = [disabled |-> FALSE]
       /\ cartCountSpan' = updateCartCount(c)

(* cart.findIndex(item => item.name === name), 0-based, -1 when absent *)
FindIndex(c, name) ==
  IF \E i \in 1..Len(c) : c[i].name = name
  THEN (CHOOSE i \in 1..Len(c) :
          /\ c[i].name = name
          /\ \A j \in 1..(i - 1) : c[j].name # name) - 1
  ELSE -1

(* The order log after the objects of the cart took the values of c2: the *)
(* order items that are the same objects as cart entries show the same    *)
(* quantity.  c2 has the objects of the cart at the same positions.       *)
WriteThrough(os, alias, c2) ==
  [o \in 1..Len(os) |->
     [os[o] EXCEPT !.items =
        [j \in 1..Len(os[o].items) |->
           IF \E i \in 1..Len(alias) : i <= Len(c2) /\ <<o, j>> \in alias[i]
           THEN LET i == CHOOSE i \in 1..Len(alias) : i <= Len(c2) /\ <<o, j>> \in alias[i]
                IN [os[o].items[j] EXCEPT !.quantity = c2[i].quantity]
           ELSE os[o].items[j]]]]

addItemToCart_AlwaysPush(c, name, price) ==
  Append(c, [name |-> name, price |-> price, quantity |-> 1])

addItemToCart_Unshift(c, name, price) ==
  LET existingItemIndex == FindIndex(c, name)
  IN IF existingItemIndex > -1
     THEN [c EXCEPT ![existingItemIndex + 1].quantity = @ + 1]
     ELSE <<[name |-> name, price |-> price, quantity |-> 1]>> \o c

addItemToCart_MoveToEnd(c, name, price) ==
  LET existingItemIndex == FindIndex(c, name)
  IN IF existingItemIndex > -1
     THEN Append(SubSeq(c, 1, existingItemIndex) \o SubSeq(c, existingItemIndex + 2, Len(c)),
                 [c[existingItemIndex + 1] EXCEPT !.quantity = @ + 1])
     ELSE Append(c, [name |-> name, price |-> price, quantity |-> 1])

(* The cart after addItemToCart(name, price) *)
addItemToCart(c, name, price) ==
  LET existingItemIndex == FindIndex(c, name)
  IN IF existingItemIndex > -1
     THEN [c EXCEPT ![existingItemIndex + 1].quantity = @ + 1]
     ELSE Append(c, [name |-> name, price |-> price, quantity |-> 1])

Splice1_ToEnd(c, index) == SubSeq(c, 1, index)

(* cart.splice(index, 1) for a 0-based index within the cart *)
Splice1(c, index) ==
  SubSeq(c, 1, index) \o SubSeq(c, index + 2, Len(c))

openModal(m) == modalDisplay' = [modalDisplay EXCEPT ![m] = "flex"]
closeModal(m) == modalDisplay' = [modalDisplay EXCEPT ![m] = "none"]

-----------------------------------------------------------------------------
(* State after the DOMContentLoaded listener has run *)

Init ==
  /\ cart = <<>>
  /\ cartAlias = <<>>
  /\ orders = <<>>
  /\ now = 0
  /\ cartItemsContainer = <<>>
  /\ cartTotalSpan = <<"Rs", "0">>
  /\ buyAllItemsBtn = [disabled |-> TRUE]
  /\ cartCountSpan = updateCartCount(<<>>)
  /\ modalDisplay = [m \in Modals |-> "none"]
  /\ orderConfirmationMessage = <<>>
  /\ orderNumberInput = <<>>
  /\ orderStatusDisplay = [content |-> [kind |-> "page"], classList |-> {}]
  /\ trackTimers = <<>>
  /\ confirmTimers = 0
  /\ lastEvent = [op |-> "DOMContentLoaded"]

-----------------------------------------------------------------------------
(* Checkout and lookup *)

NewOrder_AfterClear(c, t) ==
  [orderId |-> SliceLast(DateNowToString(t), 6),
   items |-> <<>>,
   total |-> SumPriceQuantity(c),
   date |-> DateToLocaleString(t)]

(* The order pushed by handleBuyAllItemsClick for cart c at clock reading t. *)
(* items: [...cart] copies the array, not the item objects.                   *)
NewOrder(c, t) ==
  [orderId |-> SliceLast(DateNowToString(t), 6),
   items |-> c,
   total |-> SumPriceQuantity(c),
   date |-> DateToLocaleString(t)]

FindOrder_Truthy(os, orderNumber) ==
  IF os # <<>> THEN <<os[1]>> ELSE <<>>

(* orders.find(order => order.orderId === orderNumber): <<order>> for the *)
(* first match, <<>> for undefined.                                        *)
FindOrder(os, orderNumber) ==
  IF \E i \in 1..Len(os) : os[i].orderId = orderNumber
  THEN << os[CHOOSE i \in 1..Len(os) :
               /\ os[i].orderId = orderNumber
               /\ \A j \in 1..(i - 1) : os[j].orderId # orderNumber] >>
  ELSE <<>>

(* The innerHTML written by trackOrder's timer for a found order. *)
OrderDetails(foundOrder) ==
  [kind |-> "details",
   orderId |-> foundOrder.orderId,
   date |-> foundOrder.date,
   itemsList |-> [i \in 1..Len(foundOrder.items) |->
                    [name |-> foundOrder.items[i].name,
                     quantity |-> NumberToString(foundOrder.items[i].quantity)]],
   total |-> <<"Rs">> \o ToLocaleStringIN(foundOrder.total)]

(* The textContent written by trackOrder's timer when nothing was found. *)
NotFoundMessage(orderNumber) == [kind |-> "notFound", orderNumber |-> orderNumber]

TrackResult_LateLookup(timer, display) ==
  IF FindOrder(orders, timer.orderNumber) # <<>>
  THEN [content |-> OrderDetails(FindOrder(orders, timer.orderNumber)[1]),
        classList |-> display.classList \cup {"success"}]
  ELSE [content |-> NotFoundMessage(timer.orderNumber),
        classList |-> display.classList \cup {"error"}]

(* What the timer callback of trackOrder writes to the status display. *)
TrackResult(timer, display) ==
  IF timer.foundOrder # <<>>
  THEN [content |-> OrderDetails(timer.foundOrder[1]),
        classList |-> display.classList \cup {"success"}]
  ELSE [content |-> NotFoundMessage(timer.orderNumber),
        classList |-> display.classList \cup {"error"}]

(* Readings Date.now() can give after the reading n: a millisecond later, *)
(* or when the last six digits have come round again.                    *)
ClockReadings(n) == { t \in {n + 1, n + 1000000} : t <= MaxNow }

-----------------------------------------------------------------------------
(* Event handlers *)

(* The objects of the cart after addItemToCart: a pushed entry is a new *)
(* object; an incremented entry is the object it was.                  *)
AliasAfterAdd(alias, c2) ==
  [i \in 1..Len(c2) |-> IF i <= Len(alias) THEN alias[i] ELSE {}]

handleAddToCartClick(p) ==
  /\ cart' = addItemToCart(cart, p.name, p.price)
  /\ cartAlias' = AliasAfterAdd(cartAlias, cart')
  /\ orders' = WriteThrough(orders, cartAlias, cart')
  /\ updateCartDisplay(cart')
  /\ lastEvent' = [op |-> "addToCart"]
  /\ UNCHANGED <<now, modalDisplay, orderConfirmationMessage,
                 trackerVars, confirmTimers>>

handleBuyNowClick(p) ==
  /\ cart' = addItemToCart(cart, p.name, p.price)
  /\ cartAlias' = AliasAfterAdd(cartAlias, cart')
  /\ orders' = WriteThrough(orders, cartAlias, cart')
  /\ updateCartDisplay(cart')
  /\ openModal("shoppingCartModal")
  /\ lastEvent' = [op |-> "buyNow"]
  /\ UNCHANGED <<now, orderConfirmationMessage, trackerVars, confirmTimers>>

CartAfterControl_NoRemove(c, kind, index) ==
  CASE kind = "increase-quantity-btn" ->
         [c EXCEPT ![index + 1].quantity = @ + 1]
    [] kind = "decrease-quantity-btn" ->
         [c EXCEPT ![index + 1].quantity = @ - 1]
    [] kind = "remove-item-btn" -> Splice1(c, index)
    [] OTHER -> c

(* The cart after a click on a control of class kind carrying data-index. *)
CartAfterControl(c, kind, index) ==
  CASE kind = "increase-quantity-btn" ->
         [c EXCEPT ![index + 1].quantity = @ + 1]
    [] kind = "decrease-quantity-btn" ->
         IF c[index + 1].quantity > 1
         THEN [c EXCEPT ![index + 1].quantity = @ - 1]
         ELSE Splice1(c, index)
    [] kind = "remove-item-btn" -> Splice1(c, index)
    [] OTHER -> c

ControlKinds == {"increase-quantity-btn", "decrease-quantity-btn", "remove-item-btn"}

(* The objects of the cart after a click on a control: a splice takes the *)
(* object out of the array, a quantity write leaves the array as it was.  *)
AliasAfterControl(alias, c, c2, index) ==
  IF Len(c2) < Len(c) THEN Splice1(alias, index) ELSE alias

(* The order log after a click on a control: a quantity write shows in the *)
(* order items that are the written object; a splice writes no object.     *)
OrdersAfterControl(os, alias, c, c2) ==
  IF Len(c2) < Len(c) THEN os ELSE WriteThrough(os, alias, c2)

(* A click on the control of class kind in row r of the cart container. *)
handleCartControlsClick(r, kind) ==
  LET index == cartItemsContainer[r].dataIndex
  IN /\ cart' = CartAfterControl(cart, kind, index)
     /\ cartAlias' = AliasAfterControl(cartAlias, cart, cart', index)
     /\ orders' = OrdersAfterControl(orders, cartAlias, cart, cart')
     /\ updateCartDisplay(cart')
     /\ lastEvent' = [op |-> kind]
     /\ UNCHANGED <<now, modalDisplay, orderConfirmationMessage,
                    trackerVars, confirmTimers>>

(* A click inside the container that is on none of the controls. *)
handleCartContainerClick ==
  /\ cart' = CartAfterControl(cart, "none", -1)
  /\ updateCartDisplay(cart')
  /\ lastEvent' = [op |-> "containerClick"]
  /\ UNCHANGED <<cartAlias, orders, now, modalDisplay, orderConfirmationMessage,
                 trackerVars, confirmTimers>>

(* showOrderConfirmation after closeModal(shoppingCartModal) *)
showOrderConfirmation(orderId) ==
  /\ orderConfirmationMessage' = orderId
  /\ modalDisplay' = [modalDisplay EXCEPT !["shoppingCartModal"] = "none",
                                          !["orderConfirmationModal"] = "flex"]
  /\ confirmTimers' = confirmTimers + 1

CartHasItems_OrEmpty(c) == Len(c) >= 0

(* if (cart.length > 0) *)
CartHasItems(c) == Len(c) > 0

ClearedCart_SameArray(c) == c

(* cart = []: the variable is bound to a new, empty array *)
ClearedCart(c) == <<>>

(* The objects of the cart after checkout.  items: [...cart] is a new array *)
(* of the same objects, so each item of the new order is the cart entry at  *)
(* its position; the array bound to cart afterwards holds c2.               *)
AliasAfterCheckout(alias, os, c2) ==
  [i \in 1..Len(c2) |-> alias[i] \cup {<<Len(os) + 1, i>>}]

handleBuyAllItemsClick(t) ==
  IF CartHasItems(cart)
  THEN /\ now' = t
       /\ orders' = Append(orders, NewOrder(cart, t))
       /\ cart' = ClearedCart(cart)
       /\ cartAlias' = AliasAfterCheckout(cartAlias, orders, cart')
       /\ updateCartDisplay(cart')
       /\ showOrderConfirmation(NewOrder(cart, t).orderId)
       /\ lastEvent' = [op |-> "buyAll", cartLength |-> Len(cart)]
       /\ UNCHANGED trackerVars
  ELSE /\ lastEvent' = [op |-> "buyAll", cartLength |-> 0]
       /\ UNCHANGED <<cartVars, orders, now, modalDisplay,
                      orderConfirmationMessage, trackerVars, confirmTimers>>

(* The 5000 ms timer of showOrderConfirmation fires. *)
ConfirmationTimerFires ==
  /\ confirmTimers > 0
  /\ confirmTimers' = confirmTimers - 1
  /\ closeModal("orderConfirmationModal")
  /\ lastEvent' = [op |-> "confirmationTimer"]
  /\ UNCHANGED <<cartVars, orders, now, orderConfirmationMessage, trackerVars>>

cartIconButtonClick ==
  /\ openModal("shoppingCartModal")
  /\ lastEvent' = [op |-> "cartIcon"]
  /\ UNCHANGED <<cartVars, orders, now, orderConfirmationMessage, trackerVars,
                 confirmTimers>>

(* The x button of modal m. *)
closeButtonClick(m) ==
  /\ closeModal(m)
  /\ lastEvent' = [op |-> "closeButton"]
  /\ UNCHANGED <<cartVars, orders, now, orderConfirmationMessage, trackerVars,
                 confirmTimers>>

closeConfirmationBtnClick_CancelsTimer ==
  /\ closeModal("orderConfirmationModal")
  /\ confirmTimers' = 0
  /\ lastEvent' = [op |-> "closeConfirmationBtn"]
  /\ UNCHANGED <<cartVars, orders, now, orderConfirmationMessage, trackerVars>>

closeConfirmationBtnClick ==
  /\ closeModal("orderConfirmationModal")
  /\ lastEvent' = [op |-> "closeConfirmationBtn"]
  /\ UNCHANGED <<cartVars, orders, now, orderConfirmationMessage, trackerVars,
                 confirmTimers>>

closeTrackerBtnClick ==
  /\ closeModal("orderTrackerModal")
  /\ lastEvent' = [op |-> "closeTrackerBtn"]
  /\ UNCHANGED <<cartVars, orders, now, orderConfirmationMessage, trackerVars,
                 confirmTimers>>

orderTrackerLinkClick ==
  /\ openModal("orderTrackerModal")
  /\ orderNumberInput' = <<>>
  /\ orderStatusDisplay' = [content |-> [kind |-> "enterNumber"],
                            classList |-> orderStatusDisplay.classList \ {"success", "error"}]
  /\ lastEvent' = [op |-> "trackerLink"]
  /\ UNCHANGED <<cartVars, orders, now, orderConfirmationMessage, trackTimers,
                 confirmTimers>>

trackOrder_CancelPrior(orderNumber) ==
  /\ orderStatusDisplay' = [content |-> [kind |-> "tracking"],
                            classList |-> orderStatusDisplay.classList \ {"success", "error"}]
  /\ trackTimers' = << [foundOrder |-> FindOrder(orders, orderNumber),
                        orderNumber |-> orderNumber] >>

(* The status display and timer queue after trackOrder(orderNumber).  The *)
(* timers all have the delay 1500, so they fire in the order of the calls. *)
trackOrder(orderNumber) ==
  /\ orderStatusDisplay' = [content |-> [kind |-> "tracking"],
                            classList |-> orderStatusDisplay.classList \ {"success", "error"}]
  /\ trackTimers' = Append(trackTimers,
                           [foundOrder |-> FindOrder(orders, orderNumber),
                            orderNumber |-> orderNumber])

(* The user has typed v into the field and clicks the track button. *)
trackOrderBtnClick(v) ==
  LET orderNumber == Trim(v)
  IN /\ orderNumberInput' = v
     /\ IF orderNumber # <<>>
        THEN trackOrder(orderNumber)
        ELSE /\ orderStatusDisplay' =
                  [content |-> [kind |-> "enterValid"],
                   classList |-> orderStatusDisplay.classList \cup {"error"}]
             /\ UNCHANGED trackTimers
     /\ lastEvent' = [op |-> "trackBtn"]
     /\ UNCHANGED <<cartVars, orders, now, modalDisplay, orderConfirmationMessage,
                    confirmTimers>>

(* The oldest 1500 ms timer of trackOrder fires. *)
TrackTimerFires ==
  /\ trackTimers # <<>>
  /\ orderStatusDisplay' = TrackResult(Head(trackTimers), orderStatusDisplay)
  /\ trackTimers' = Tail(trackTimers)
  /\ lastEvent' = [op |-> "trackTimer"]
  /\ UNCHANGED <<cartVars, orders, now, modalDisplay, orderConfirmationMessage,
                 orderNumberInput, confirmTimers>>

(* Every handler and timer callback of the script. *)
Next ==
  \/ \E p \in Products : handleAddToCartClick(p)
  \/ \E p \in Products : handleBuyNowClick(p)
  \/ \E r \in DOMAIN cartItemsContainer, kind \in ControlKinds :
        handleCartControlsClick(r, kind)
  \/ handleCartContainerClick
  \/ \E t \in ClockReadings(now) : handleBuyAllItemsClick(t)
  \/ ConfirmationTimerFires
  \/ cartIconButtonClick
  \/ \E m \in Modals : closeButtonClick(m)
  \/ closeConfirmationBtnClick
  \/ closeTrackerBtnClick
  \/ orderTrackerLinkClick
  \/ \E v \in InputValues : trackOrderBtnClick(v)
  \/ TrackTimerFires

Spec == Init /\ [][Next]_vars

-----------------------------------------------------------------------------
(* Bounded runs.  The handlers left out of a run leave the variables its   *)
(* other handlers read unchanged: the modal buttons write modalDisplay     *)
(* only, the confirmation timer writes modalDisplay and confirmTimers      *)
(* only, the tracker handlers write trackerVars and modalDisplay only, and *)
(* no handler reads modalDisplay or confirmTimers.                         *)

(* No quantity in c is at the bound. *)
BelowMaxQty(c, name) ==
  \A i \in 1..Len(c) : c[i].name = name => c[i].quantity < MaxQty

(* The cart handlers and checkout, with the confirmation timer. *)
NextShop ==
  \/ \E p \in Products : BelowMaxQty(cart, p.name) /\ handleAddToCartClick(p)
  \/ \E p \in Products : BelowMaxQty(cart, p.name) /\ handleBuyNowClick(p)
  \/ \E r \in DOMAIN cartItemsContainer, kind \in ControlKinds :
        /\ kind = "increase-quantity-btn" => cart[r].quantity < MaxQty
        /\ handleCartControlsClick(r, kind)
  \/ handleCartContainerClick
  \/ \E t \in ClockReadings(now) \cap {now + 1} :
        /\ cart # <<>> => Len(orders) < MaxShopOrders
        /\ handleBuyAllItemsClick(t)
  \/ ConfirmationTimerFires

SpecShop == Init /\ [][NextShop]_vars

(* The order tracker, with the checkouts that fill the order log. *)
NextTracker ==
  \/ \E p \in TrackerProducts : BelowMaxQty(cart, p.name) /\ handleAddToCartClick(p)
  \/ \E t \in ClockReadings(now) :
        /\ cart # <<>> => Len(orders) < MaxOrders
        /\ handleBuyAllItemsClick(t)
  \/ orderTrackerLinkClick
  \/ closeTrackerBtnClick
  \/ \E v \in InputValues :
        /\ Trim(v) # <<>> => Len(trackTimers) < MaxTrackTimers
        /\ trackOrderBtnClick(v)
  \/ TrackTimerFires

SpecTracker == Init /\ [][NextTracker]_vars

(* The order log under every cart handler, checkout and lookup. *)
NextOrders ==
  \/ \E p \in TrackerProducts : BelowMaxQty(cart, p.name) /\ handleAddToCartClick(p)
  \/ \E r \in DOMAIN cartItemsContainer, kind \in ControlKinds :
        /\ kind = "increase-quantity-btn" => cart[r].quantity < MaxQty
        /\ handleCartControlsClick(r, kind)
  \/ \E t \in ClockReadings(now) :
        /\ cart # <<>> => Len(orders) < MaxOrders
        /\ handleBuyAllItemsClick(t)
  \/ \E v \in InputValues :
        /\ Trim(v) # <<>> => Len(trackTimers) < MaxTrackTimers
        /\ trackOrderBtnClick(v)
  \/ TrackTimerFires

SpecOrders == Init /\ [][NextOrders]_vars

(* Lookups requested while earlier ones are pending. *)
NextOverlap ==
  \/ \E p \in TrackerProducts : BelowMaxQty(cart, p.name) /\ handleAddToCartClick(p)
  \/ \E t \in ClockReadings(now) :
        /\ cart # <<>> => Len(orders) < MaxShopOrders
        /\ handleBuyAllItemsClick(t)
  \/ \E v \in InputValues :
        /\ Trim(v) # <<>> => Len(trackTimers) < MaxPending
        /\ trackOrderBtnClick(v)
  \/ TrackTimerFires

SpecOverlap == Init /\ [][NextOverlap]_vars

(* The panels: checkouts, the auto-close timers and the close buttons. *)
NextModals ==
  \/ \E p \in TrackerProducts : BelowMaxQty(cart, p.name) /\ handleBuyNowClick(p)
  \/ \E t \in ClockReadings(now) \cap {now + 1} :
        /\ cart # <<>> => Len(orders) < MaxOrders
        /\ handleBuyAllItemsClick(t)
  \/ ConfirmationTimerFires
  \/ cartIconButtonClick
  \/ \E m \in Modals : closeButtonClick(m)
  \/ closeConfirmationBtnClick

SpecModals == Init /\ [][NextModals]_vars

-----------------------------------------------------------------------------
(* Properties *)

(* Sum of price * quantity over the entries of c, by position. *)
RECURSIVE TotalUpTo(_, _)
TotalUpTo(c, k) ==
  IF k = 0 THEN 0 ELSE TotalUpTo(c, k - 1) + c[k].price * c[k].quantity

TotalOf(c) == TotalUpTo(c, Len(c))

(* Sum of the quantities of the entries of c, by position. *)
RECURSIVE QuantityUpTo(_, _)
QuantityUpTo(c, k) ==
  IF k = 0 THEN 0 ELSE QuantityUpTo(c, k - 1) + c[k].quantity

QuantityOfCart(c) == QuantityUpTo(c, Len(c))

DigitValue(ch) == CASE ch = "0" -> 0 [] ch = "1" -> 1 [] ch = "2" -> 2 [] ch = "3" -> 3
                    [] ch = "4" -> 4 [] ch = "5" -> 5 [] ch = "6" -> 6 [] ch = "7" -> 7
                    [] ch = "8" -> 8 [] ch = "9" -> 9

(* The number a reader takes from a displayed amount: the currency glyph *)
(* and the grouping commas dropped, the digits read in base ten.         *)
RECURSIVE ReadAmount(_)
ReadAmount(s) ==
  IF s = <<>> THEN 0
  ELSE LET ch == s[Len(s)]
           rest == SubSeq(s, 1, Len(s) - 1)
       IN IF ch \in {",", "Rs"} THEN ReadAmount(rest)
          ELSE 10 * ReadAmount(rest) + DigitValue(ch)

Last(q) == q[Len(q)]

(* c without its entry at position r (1-based). *)
Without(c, r) == [k \in 1..(Len(c) - 1) |-> IF k < r THEN c[k] ELSE c[k + 1]]

(* C1: a checkout of a non-empty cart appends exactly one order to orders; *)
(* the order's items are the cart as it was, entry for entry, its total is *)
(* the sum of price * quantity over that cart, and the cart is empty       *)
(* afterwards.                                                             *)
C1_CheckoutCreatesOneOrder ==
  [][ (lastEvent'.op = "buyAll" /\ cart # <<>>) =>
        /\ Len(orders') = Len(orders) + 1
        /\ SubSeq(orders', 1, Len(orders)) = orders
        /\ Last(orders').items = cart
        /\ Last(orders').total = TotalOf(cart)
        /\ cart' = <<>> ]_vars

C1_Witness ==
  /\ lastEvent.op = "buyAll"
  /\ lastEvent.cartLength = 2
  /\ cart = <<>>
  /\ Len(orders) = 1
  /\ Len(orders[1].items) = 2
  /\ \E i \in 1..2 : orders[1].items[i].quantity = 2

(* C2: a checkout of an empty cart changes nothing: no order is created,   *)
(* the cart stays empty, no modal is opened or closed and no auto-close    *)
(* timer is scheduled.                                                     *)
C2_EmptyCheckoutIsNoOp ==
  [][ (lastEvent'.op = "buyAll" /\ cart = <<>>) =>
        /\ cart' = <<>>
        /\ UNCHANGED <<orders, modalDisplay, confirmTimers,
                       orderConfirmationMessage>> ]_vars

C2_Witness ==
  /\ lastEvent.op = "buyAll"
  /\ lastEvent.cartLength = 0
  /\ cart = <<>>
  /\ modalDisplay["shoppingCartModal"] = "flex"
  /\ orders # <<>>

(* C3: the cart never holds two line items with the same product name. *)
C3_OneLineItemPerName ==
  \A i, j \in 1..Len(cart) : cart[i].name = cart[j].name => i = j

C3_Witness ==
  /\ lastEvent.op \in {"addToCart", "buyNow"}
  /\ Len(cart) = 2
  /\ \A i \in 1..2 : cart[i].quantity = 2

(* C4: every line item in the cart has quantity >= 1; an entry with        *)
(* quantity 0 is never present.                                            *)
C4_QuantityAtLeastOne ==
  \A i \in 1..Len(cart) : cart[i].quantity >= 1

C4_Witness ==
  /\ lastEvent.op = "decrease-quantity-btn"
  /\ cart = <<>>
  /\ orders = <<>>

(* C5: adding a product whose name the cart holds raises that entry's      *)
(* quantity by exactly 1 and changes nothing else; adding a product the    *)
(* cart does not hold appends {name, price, quantity 1} at the end and     *)
(* leaves the existing entries as they were.                               *)
C5_AddItemToCart ==
  [][ \A p \in Products :
        (handleAddToCartClick(p) \/ handleBuyNowClick(p)) =>
          IF \E k \in 1..Len(cart) : cart[k].name = p.name
          THEN /\ Len(cart') = Len(cart)
               /\ \A k \in 1..Len(cart) :
                    /\ cart'[k].name = cart[k].name
                    /\ cart'[k].price = cart[k].price
                    /\ cart'[k].quantity =
                         IF cart[k].name = p.name THEN cart[k].quantity + 1
                         ELSE cart[k].quantity
          ELSE /\ Len(cart') = Len(cart) + 1
               /\ SubSeq(cart', 1, Len(cart)) = cart
               /\ Last(cart') = [name |-> p.name, price |-> p.price, quantity |-> 1]
    ]_vars

C5_Witness ==
  /\ lastEvent.op = "addToCart"
  /\ Len(cart) = 2
  /\ cart[1].quantity = 2
  /\ cart[2].quantity = 1

(* C6: a click on the decrease control of a cart entry removes the entry   *)
(* when its quantity is 1, and otherwise lowers its quantity by 1 in       *)
(* place; every other entry keeps its values and its relative order.       *)
C6_DecreaseQuantity ==
  [][ \A r \in 1..Len(cartItemsContainer) :
        handleCartControlsClick(r, "decrease-quantity-btn") =>
          IF cart[r].quantity = 1
          THEN cart' = Without(cart, r)
          ELSE /\ Len(cart') = Len(cart)
               /\ \A k \in 1..Len(cart) :
                    cart'[k] = IF k = r
                               THEN [name |-> cart[k].name, price |-> cart[k].price,
                                     quantity |-> cart[k].quantity - 1]
                               ELSE cart[k]
    ]_vars

C6_Witness ==
  /\ lastEvent.op = "decrease-quantity-btn"
  /\ Len(cart) = 1
  /\ cart[1].quantity = 2
  /\ orders # <<>>

(* C7: the total shown in the cart panel is the sum of price * quantity    *)
(* over the entries of the cart, 0 when the cart is empty.                 *)
C7_ShownTotalIsCartTotal ==
  ReadAmount(cartTotalSpan) = TotalOf(cart)

C7_Witness ==
  /\ lastEvent.op = "increase-quantity-btn"
  /\ Len(cart) = 2
  /\ TotalOf(cart) > 4000
  /\ \E i \in 1..Len(cartTotalSpan) : cartTotalSpan[i] = ","

(* C8: the badge on the cart icon shows the sum of the quantities in the   *)
(* cart, and is visible exactly when that sum is greater than 0.           *)
C8_BadgeIsItemCount ==
  /\ ReadAmount(cartCountSpan.textContent) = QuantityOfCart(cart)
  /\ cartCountSpan.display = "block" <=> QuantityOfCart(cart) > 0

(* C9: a lookup with the order id of the checkout that just completed is   *)
(* resolved with that order, and the display shows that order's own id,    *)
(* date, items and total with the success styling.                         *)
C9_LookupOfNewOrderFindsIt ==
  [][ /\ \A v \in InputValues :
           (orders # <<>> /\ Trim(v) = Last(orders).orderId /\ trackOrderBtnClick(v))
             => Last(trackTimers').foundOrder = <<Last(orders)>>
      /\ (lastEvent'.op = "trackTimer" /\ Head(trackTimers).foundOrder # <<>>) =>
           LET o == Head(trackTimers).foundOrder[1]
               shown == orderStatusDisplay'.content
           IN /\ shown.kind = "details"
              /\ shown.orderId = o.orderId
              /\ shown.date = o.date
              /\ Len(shown.itemsList) = Len(o.items)
              /\ \A i \in 1..Len(o.items) :
                   /\ shown.itemsList[i].name = o.items[i].name
                   /\ ReadAmount(shown.itemsList[i].quantity) = o.items[i].quantity
              /\ ReadAmount(shown.total) = o.total
              /\ "success" \in orderStatusDisplay'.classList
    ]_vars

(* C10: a lookup with a non-empty id that no order in orders carries at    *)
(* the request is resolved with the not-found message for that id and the  *)
(* error styling, never with order details and never with the empty-input  *)
(* message; neither the request nor its resolution changes cart or orders. *)
C10_UnknownIdIsNotFound ==
  [][ /\ \A v \in InputValues :
           (/\ Trim(v) # <<>>
            /\ \A i \in 1..Len(orders) : orders[i].orderId # Trim(v)
            /\ trackOrderBtnClick(v))
             => /\ Last(trackTimers') = [foundOrder |-> <<>>, orderNumber |-> Trim(v)]
                /\ UNCHANGED <<cart, orders>>
      /\ (lastEvent'.op = "trackTimer" /\ Head(trackTimers).foundOrder = <<>>) =>
           /\ orderStatusDisplay'.content =
                [kind |-> "notFound", orderNumber |-> Head(trackTimers).orderNumber]
           /\ orderStatusDisplay'.content.kind \notin {"details", "enterValid"}
           /\ "error" \in orderStatusDisplay'.classList
           /\ UNCHANGED <<cart, orders>>
    ]_vars

C10_Witness ==
  /\ lastEvent.op = "trackTimer"
  /\ orderStatusDisplay.content.kind = "notFound"
  /\ orderStatusDisplay.content.orderNumber = <<"9","9","9","9","9","9">>
  /\ "error" \in orderStatusDisplay.classList
  /\ Len(orders) = 2

(* C11: orders is append-only and its orders never change: no step removes *)
(* an order, moves it, or changes its orderId, items, total or date; in    *)
(* particular adding the same product again after checkout and changing    *)
(* its quantity leaves the stored order's items as they were.              *)
C11_OrdersAppendOnly ==
  [][ /\ Len(orders') >= Len(orders)
      /\ \A i \in 1..Len(orders) : orders'[i] = orders[i] ]_vars

C11_Witness ==
  /\ lastEvent.op = "increase-quantity-btn"
  /\ Len(orders) = 2
  /\ Len(cart) = 1
  /\ cart[1].name = orders[2].items[1].name
  /\ cart[1].quantity = 2
  /\ orders[1].items[1].quantity = 1
  /\ orders[2].items[1].quantity = 1

(* C12: what a lookup displays when its timer fires is what find returned  *)
(* when the lookup was requested: a pending lookup keeps its result until  *)
(* it fires, and a lookup that found nothing displays not-found even when  *)
(* an order with that id has been placed in the meantime.                  *)
C12_ResultIsFromRequestTime ==
  [][ /\ \A v \in InputValues :
           (Trim(v) # <<>> /\ trackOrderBtnClick(v)) =>
             /\ Last(trackTimers').orderNumber = Trim(v)
             /\ (Last(trackTimers').foundOrder = <<>>) <=>
                  (\A i \in 1..Len(orders) : orders[i].orderId # Trim(v))
      /\ lastEvent'.op # "trackTimer" =>
           /\ Len(trackTimers') >= Len(trackTimers)
           /\ \A k \in 1..Len(trackTimers) : trackTimers'[k] = trackTimers[k]
      /\ lastEvent'.op = "trackTimer" =>
           LET timer == Head(trackTimers)
               shown == orderStatusDisplay'.content
           IN IF timer.foundOrder = <<>>
              THEN shown = [kind |-> "notFound", orderNumber |-> timer.orderNumber]
              ELSE /\ shown.kind = "details"
                   /\ shown.orderId = timer.foundOrder[1].orderId
                   /\ shown.date = timer.foundOrder[1].date
    ]_vars

C12_Witness ==
  /\ lastEvent.op = "trackTimer"
  /\ orderStatusDisplay.content.kind = "notFound"
  /\ \E i \in 1..Len(orders) :
        orders[i].orderId = orderStatusDisplay.content.orderNumber

(* C13: a lookup requested while earlier lookups are pending cancels none  *)
(* of them: each pending timer stays until it fires, each firing writes    *)
(* that timer's own result, so after both have fired the display shows the *)
(* result of the one that fired last.                                      *)
C13_OverlappingLookupsBothResolve ==
  [][ /\ \A v \in InputValues :
           (Trim(v) # <<>> /\ trackOrderBtnClick(v)) =>
             /\ Len(trackTimers') = Len(trackTimers) + 1
             /\ SubSeq(trackTimers', 1, Len(trackTimers)) = trackTimers
      /\ Len(trackTimers') < Len(trackTimers) =>
           /\ lastEvent'.op = "trackTimer"
           /\ trackTimers' = Tail(trackTimers)
           /\ orderStatusDisplay'.content.kind =
                IF Head(trackTimers).foundOrder = <<>> THEN "notFound" ELSE "details"
           /\ Head(trackTimers).foundOrder = <<>> =>
                orderStatusDisplay'.content.orderNumber = Head(trackTimers).orderNumber
           /\ Head(trackTimers).foundOrder # <<>> =>
                orderStatusDisplay'.content.orderId = Head(trackTimers).foundOrder[1].orderId
    ]_vars

C13_Witness ==
  /\ lastEvent.op = "trackTimer"
  /\ trackTimers = <<>>
  /\ orderStatusDisplay.content.kind = "notFound"
  /\ orderStatusDisplay.classList = {"success", "error"}

(* C14: closing the confirmation panel by hand cancels no auto-close timer, *)
(* and every auto-close timer that fires closes the panel, also when a      *)
(* later checkout has opened it again and that checkout's own timer is      *)
(* still pending.                                                           *)
C14_StaleTimerClosesReopenedModal ==
  [][ /\ lastEvent'.op \in {"closeConfirmationBtn", "closeButton"} =>
           confirmTimers' = confirmTimers
      /\ (lastEvent'.op = "buyAll" /\ cart # <<>>) =>
           /\ modalDisplay'["orderConfirmationModal"] = "flex"
           /\ confirmTimers' = confirmTimers + 1
      /\ lastEvent'.op = "confirmationTimer" =>
           /\ modalDisplay'["orderConfirmationModal"] = "none"
           /\ confirmTimers' = confirmTimers - 1
    ]_vars

C14_Witness ==
  /\ lastEvent.op = "confirmationTimer"
  /\ Len(orders) = 2
  /\ confirmTimers = 1
  /\ modalDisplay["orderConfirmationModal"] = "none"

(* Every character of v is a space. *)
Blank(v) == \A i \in 1..Len(v) : v[i] = " "

(* C15: a click on the track button with an empty or blank field shows the *)
(* enter-a-valid-number error, starts no lookup and leaves cart and orders *)
(* as they were; a lookup is started, and the display set to tracking, by  *)
(* a click with a non-blank field and by nothing else.                     *)
C15_EmptyInputStartsNoLookup ==
  [][ /\ \A v \in InputValues :
           trackOrderBtnClick(v) =>
             IF Blank(v)
             THEN /\ orderStatusDisplay'.content = [kind |-> "enterValid"]
                  /\ "error" \in orderStatusDisplay'.classList
                  /\ UNCHANGED <<trackTimers, cart, orders>>
             ELSE /\ orderStatusDisplay'.content = [kind |-> "tracking"]
                  /\ Len(trackTimers') = Len(trackTimers) + 1
      /\ Len(trackTimers') > Len(trackTimers) =>
           /\ lastEvent'.op = "trackBtn"
           /\ ~Blank(orderNumberInput')
    ]_vars

C15_Witness ==
  /\ lastEvent.op = "trackBtn"
  /\ orderNumberInput = <<" ">>
  /\ orderStatusDisplay.content = [kind |-> "enterValid"]
  /\ trackTimers = <<>>
  /\ orders # <<>>

(* C16: no step changes the relative order of two entries that stay in the *)
(* cart, and an entry whose name the cart did not hold is put at the end:  *)
(* the cart is in first-add order.                                         *)
C16_FirstAddOrder ==
  [][ /\ \A i, j \in 1..Len(cart) : \A k, l \in 1..Len(cart') :
           (i < j /\ cart'[k].name = cart[i].name /\ cart'[l].name = cart[j].name)
             => k < l
      /\ \A k \in 1..Len(cart') :
           (\A i \in 1..Len(cart) : cart[i].name # cart'[k].name) => k = Len(cart')
    ]_vars

C16_Witness ==
  /\ lastEvent.op = "addToCart"
  /\ Len(cart) = 2
  /\ cart[1].name = "Sneakers"
  /\ cart[1].quantity = 2
  /\ cart[2].name = "Hoodie"
  /\ orders # <<>>

(* C17: the rows rendered in the cart panel are the entries of the cart in *)
(* order, and the index carried by the controls of row i is its position   *)
(* in the cart, so the rendered indices are exactly 0..len(cart)-1.        *)
C17_RenderedIndicesAreCartPositions ==
  /\ Len(cartItemsContainer) = Len(cart)
  /\ \A i \in 1..Len(cartItemsContainer) :
       /\ cartItemsContainer[i].dataIndex = i - 1
       /\ cartItemsContainer[i].name = cart[i].name
       /\ ReadAmount(cartItemsContainer[i].quantity) = cart[i].quantity

C17_Witness ==
  /\ lastEvent.op = "remove-item-btn"
  /\ Len(cart) = 1
  /\ cart[1].name = "Sneakers"
  /\ cart[1].quantity = 2
  /\ cartItemsContainer[1].dataIndex = 0

(* C18: the buy-all button is disabled exactly when the cart is empty. *)
C18_BuyButtonDisabledIffEmpty ==
  buyAllItemsBtn.disabled <=> (cart = <<>>)

C18_Witness ==
  /\ lastEvent.op = "buyAll"
  /\ lastEvent.cartLength = 2
  /\ cart = <<>>
  /\ buyAllItemsBtn.disabled

(* C19: the status display carries at most one of the classes success and *)
(* error, success only with order details and error only with the         *)
(* not-found or the enter-a-valid-number message.                         *)
C19_OneStylingClass ==
  /\ ~({"success", "error"} \subseteq orderStatusDisplay.classList)
  /\ "success" \in orderStatusDisplay.classList =>
       orderStatusDisplay.content.kind = "details"
  /\ "error" \in orderStatusDisplay.classList =>
       orderStatusDisplay.content.kind \in {"notFound", "enterValid"}

(* C20: once the tracker link has reset the display to its idle message,   *)
(* the display stays as it is until the next click on the track button.    *)
C20_IdleUntilNewLookup ==
  [][ (orderStatusDisplay.content.kind = "enterNumber" /\ lastEvent'.op # "trackBtn")
        => orderStatusDisplay' = orderStatusDisplay ]_vars

====
